---- MODULE Spec2Model ----
(***************************************************************************)
(* Model of backend/server.js: the streaming relay of POST                 *)
(* /api/ask-questions (streamAIToSSE and the sequential question loop)     *)
(* and the single-shot relays /api/chat, /api/detailed-answer and          *)
(* /api/summarize-answer.                                                  *)
(*                                                                         *)
(* Strings are sequences of characters.  The upstream byte stream is a     *)
(* sequence of atoms: an atom is a run of characters that the model never  *)
(* splits across two chunks (the 'data: ' prefix, a JSON payload, the      *)
(* sentinel, one whitespace, one newline).  Chunk boundaries fall between  *)
(* any two atoms.  Date.now() timestamps and console output are left out   *)
(* of the events.  A handler runs from one await to the next in one step:  *)
(* promise continuations run before the next I/O callback, and every       *)
(* 'data' event is an I/O callback of its own.                             *)
(*                                                                         *)
(* Spec is one request to any endpoint.  SpecFault adds statements of the  *)
(* batch handler that throw, SpecDisconnect a caller that disconnects,     *)
(* SpecFair fairness of the upstream, SpecMixed question lists that mix    *)
(* blank entries and questions, SpecTwo a second concurrent batch.         *)
(***************************************************************************)
EXTENDS Integers, Sequences, FiniteSets, TLC

\* ------------------------------------------------------------------ bounds
\* Longest questions array a request carries.
MaxQuestions == 2
\* Most 'data' events the upstream delivers during one batch, all streams together.
MaxChunks == 3

\* ----------------------------------------------------------------- strings
Whitespace == {" ", "\t"}

RECURSIVE TrimStart(_)
\* String.prototype.trim, leading part.
TrimStart(s) ==
    IF s # <<>> /\ Head(s) \in Whitespace THEN TrimStart(Tail(s)) ELSE s

RECURSIVE TrimEnd(_)
\* String.prototype.trim, trailing part.
TrimEnd(s) ==
    IF s # <<>> /\ s[Len(s)] \in Whitespace
    THEN TrimEnd(SubSeq(s, 1, Len(s) - 1))
    ELSE s

\* q.trim()
Trim(s) == TrimEnd(TrimStart(s))

\* -------------------------------------------------------- upstream frames
NL == "\n"
PFX == "data: "
SENTINEL == "[DONE]"
\* JSON payloads: delta "Hel", delta "lo", valid JSON without a delta, and
\* text that is no JSON.
JHel == "{delta:Hel}"
JLo == "{delta:lo}"
JNone == "{}"
JBad == "{delta:"

\* JSON.parse(raw) followed by parsed.choices?.[0]?.delta?.content: ok is
\* FALSE when JSON.parse throws; content <<>> stands for undefined or ""
\* (both falsy).
JsonParse(raw) ==
    IF raw = <<JHel>> THEN [ok |-> TRUE, content |-> <<"H", "e", "l">>]
    ELSE IF raw = <<JLo>> THEN [ok |-> TRUE, content |-> <<"l", "o">>]
    ELSE IF raw = <<JNone>> THEN [ok |-> TRUE, content |-> <<>>]
    ELSE [ok |-> FALSE, content |-> <<>>]

RECURSIVE SplitFrom(_, _, _)
SplitFrom(s, cur, acc) ==
    IF s = <<>> THEN Append(acc, cur)
    ELSE IF Head(s) = NL THEN SplitFrom(Tail(s), <<>>, Append(acc, cur))
    ELSE SplitFrom(Tail(s), Append(cur, Head(s)), acc)

\* buffer.split('\n'): always at least one element.
Split(s) == SplitFrom(s, <<>>, <<>>)

\* line.startsWith('data: ')
StartsWithData(line) == line # <<>> /\ Head(line) = PFX

\* ------------------------------------------------------------------ events
ProgressEvent(idx, question, total) ==
    [type |-> "progress", current |-> idx + 1, total |-> total,
     question |-> question, index |-> idx, status |-> "processing"]

TokenEvent(idx, token) == [type |-> "token", index |-> idx, chunk |-> token]

AnswerDoneEvent(idx, question, answer, error) ==
    [type |-> "answer_done", index |-> idx, question |-> question,
     answer |-> answer, error |-> error]

CompleteEvent(total) == [type |-> "complete", totalQuestions |-> total]

\* The in-band event of the outer catch block.
ErrorEvent(message) == [type |-> "error", error |-> message]

\* ---------------------------------------------------------- frame parser
RECURSIVE ProcessLines_Stop(_, _, _, _)
\* Mutant: a catch block that leaves the listener, `catch { return; }`, and
\* a payload without delta treated the same way.
ProcessLines_Stop(lines, idx, fullAnswer, tokens) ==
    IF lines = <<>>
    THEN [fullAnswer |-> fullAnswer, tokens |-> tokens, sentinel |-> FALSE]
    ELSE
        LET line == Head(lines)
            raw == Trim(Tail(line))
            parsed == JsonParse(raw)
        IN  IF ~StartsWithData(line)
            THEN ProcessLines_Stop(Tail(lines), idx, fullAnswer, tokens)
            ELSE IF raw = <<SENTINEL>>
            THEN [fullAnswer |-> fullAnswer, tokens |-> tokens, sentinel |-> TRUE]
            ELSE IF parsed.ok /\ parsed.content # <<>>
            THEN ProcessLines_Stop(Tail(lines), idx, fullAnswer \o parsed.content,
                                   Append(tokens, TokenEvent(idx, parsed.content)))
            ELSE [fullAnswer |-> fullAnswer, tokens |-> tokens, sentinel |-> FALSE]

RECURSIVE ProcessLines(_, _, _, _)
\* The for loop of the 'data' listener over the complete lines: acc is
\* [fullAnswer, tokens, sentinel]; the loop returns at the sentinel.
ProcessLines(lines, idx, fullAnswer, tokens) ==
    IF lines = <<>>
    THEN [fullAnswer |-> fullAnswer, tokens |-> tokens, sentinel |-> FALSE]
    ELSE
        LET line == Head(lines)
            raw == Trim(Tail(line))
            parsed == JsonParse(raw)
        IN  IF ~StartsWithData(line)
            THEN ProcessLines(Tail(lines), idx, fullAnswer, tokens)
            ELSE IF raw = <<SENTINEL>>
            THEN [fullAnswer |-> fullAnswer, tokens |-> tokens, sentinel |-> TRUE]
            ELSE IF parsed.ok /\ parsed.content # <<>>
            THEN ProcessLines(Tail(lines), idx, fullAnswer \o parsed.content,
                              Append(tokens, TokenEvent(idx, parsed.content)))
            ELSE ProcessLines(Tail(lines), idx, fullAnswer, tokens)

\* Mutant: token events tagged with `current` (index + 1) instead of index.
OnData_WrongIndex(buffer, fullAnswer, chunk, idx) ==
    LET lines == Split(buffer \o chunk)
        done == ProcessLines(SubSeq(lines, 1, Len(lines) - 1), idx + 1, fullAnswer, <<>>)
    IN  [buffer |-> lines[Len(lines)], fullAnswer |-> done.fullAnswer,
         tokens |-> done.tokens, sentinel |-> done.sentinel]

\* The 'data' listener: the new buffer and answer, the token events it
\* sends, and whether it called resolve().
OnData(buffer, fullAnswer, chunk, idx) ==
    LET lines == Split(buffer \o chunk)
        done == ProcessLines(SubSeq(lines, 1, Len(lines) - 1), idx, fullAnswer, <<>>)
    IN  [buffer |-> lines[Len(lines)], fullAnswer |-> done.fullAnswer,
         tokens |-> done.tokens, sentinel |-> done.sentinel]

\* ------------------------------------------------------------------- state
\* One request to the server and the upstream traffic it causes.
VARIABLES
    endpoint,        \* the route of the request
    body,            \* req.body
    pc,              \* where the handler is suspended
    validQuestions,  \* questions.filter(...) of the batch handler
    i,               \* loop variable of the question loop
    res,             \* the express response
    calls,           \* upstream requests issued (fetch calls), in order
    streams,         \* per question: the upstream body and the closure of streamAIToSSE
    response,        \* the upstream response whose body the handler reads
    nchunks,         \* 'data' events delivered so far
    batches          \* concurrent batch requests: the state of each

vars ==
    <<endpoint, body, pc, validQuestions, i, res, calls, streams, response, nchunks,
      batches>>

\* Question strings a request may carry: empty, whitespace-only, padded.
QStrings == {<<>>, <<" ">>, <<" ", "a", "\t">>}

\* req.body.questions: undefined, a value that is no array, or an array of strings.
Bodies ==
    {[present |-> FALSE, isArray |-> FALSE, questions |-> <<>>],
     [present |-> TRUE, isArray |-> FALSE, questions |-> <<>>]}
    \cup {[present |-> TRUE, isArray |-> TRUE, questions |-> qs] :
            qs \in UNION {[1..n -> QStrings] : n \in 0..MaxQuestions}}

\* Upstream response bodies of a streaming call, as atom sequences.
StreamHello == <<PFX, JHel, NL, PFX, JLo, NL, PFX, SENTINEL, NL>>
StreamAfterDone == <<PFX, JHel, NL, PFX, SENTINEL, NL, PFX, JLo, NL>>
StreamMalformed == <<PFX, JBad, NL, PFX, JNone, NL, PFX, JLo, NL>>
StreamUnterminated == <<":", NL, NL, PFX, " ", JHel, "\t", NL, PFX, JLo>>
Streams == {StreamHello, StreamAfterDone, StreamMalformed, StreamUnterminated}

\* Non-success statuses the upstream answers with.
BadStatuses == {429, 500}

Indices == 0..(MaxQuestions - 1)

\* The newline-terminated lines of a byte stream.
CompleteLines(bytes) ==
    LET ls == Split(bytes) IN SubSeq(ls, 1, Len(ls) - 1)

NonWs(as) == SelectSeq(as, LAMBDA a : a \notin Whitespace)

IsDataFrame(line) == line # <<>> /\ Head(line) = PFX

\* The terminal frame of the upstream protocol, `data: [DONE]`.
IsSentinelFrame(line) == IsDataFrame(line) /\ NonWs(Tail(line)) = <<SENTINEL>>

\* The upstream has sent its terminal frame within these bytes.
SentinelSent(bytes) ==
    \E k \in 1..Len(CompleteLines(bytes)) : IsSentinelFrame(CompleteLines(bytes)[k])

\* One upstream body and the closure of the streamAIToSSE call reading it:
\* full and rest are the body and what of it is still to be delivered,
\* sentinelSent records that the terminal frame was delivered, settled is
\* the state of the promise of lines 81-105.
NoStream ==
    [state |-> "none", full |-> <<>>, rest |-> <<>>, buffer |-> <<>>,
     fullAnswer |-> <<>>, settled |-> "none", sentinelSent |-> FALSE]

\* The upstream response: none yet, fetch rejected, or a status and a body.
NoResponse == [kind |-> "none", status |-> 0, body |-> "none"]

\* response.ok
Ok(r) == r.status >= 200 /\ r.status < 300

\* JSON bodies of the express response.
NoJson == [success |-> FALSE, error |-> <<>>, message |-> <<>>, text |-> <<>>]
ErrorJson(error) == [NoJson EXCEPT !.error = error]

\* The body of the 500 response of a catch block.
InternalError(message) ==
    [NoJson EXCEPT !.error = <<"Internal server error">>, !.message = message]

NewResponse ==
    [status |-> 0, headersSent |-> FALSE, sse |-> FALSE, finished |-> FALSE,
     json |-> NoJson, events |-> <<>>, writeAfterEnd |-> FALSE,
     destroyed |-> FALSE]

\* res.status(code).json(j)
SendJson(r, code, j) ==
    [r EXCEPT !.status = code, !.headersSent = TRUE, !.finished = TRUE, !.json = j]

\* res.writeHead(200, {'Content-Type': 'text/event-stream', ...})
WriteHead(r) == [r EXCEPT !.status = 200, !.headersSent = TRUE, !.sse = TRUE]

\* sendEvent: res.write of one event; a write after res.end() puts nothing
\* on the channel (ERR_STREAM_WRITE_AFTER_END), and neither does a write
\* after the caller closed the connection (ERR_STREAM_DESTROYED).
SendEvent(r, data) ==
    IF r.destroyed
    THEN r
    ELSE IF r.finished
    THEN [r EXCEPT !.writeAfterEnd = TRUE]
    ELSE [r EXCEPT !.events = Append(@, data)]

RECURSIVE SendAll(_, _)
\* The sendEvent calls of one 'data' callback, in order.
SendAll(r, evs) ==
    IF evs = <<>> THEN r ELSE SendAll(SendEvent(r, Head(evs)), Tail(evs))

\* Mutant: res.end() left out.
End_Forgotten(r) == r

\* res.end()
End(r) == [r EXCEPT !.finished = TRUE]

\* Mutant: the filter without trim, `q => q`.
IsValidQuestion_NoTrim(q) == q # <<>>

\* q && q.trim().length > 0
IsValidQuestion(q) == q # <<>> /\ Len(Trim(q)) > 0

RECURSIVE Reverse(_)
Reverse(s) == IF s = <<>> THEN <<>> ELSE Append(Reverse(Tail(s)), Head(s))

\* Mutant: the filtered list in reverse order.
FilterValid_Reversed(qs) == Reverse(SelectSeq(qs, IsValidQuestion))

\* questions.filter(q => q && q.trim().length > 0)
FilterValid(qs) == SelectSeq(qs, IsValidQuestion)

\* const question = validQuestions[i].trim()
QuestionAt(vq, k) == Trim(vq[k + 1])

\* The try branch after streamAIToSSE returned: answer_done with error false.
FinishQuestion(r, k, vq, fullAnswer) ==
    SendEvent(r, AnswerDoneEvent(k, QuestionAt(vq, k), fullAnswer, FALSE))

\* Mutant: a catch branch that writes the partial answer without the flag.
CatchQuestion_Partial(r, k, vq, message) ==
    SendEvent(r, AnswerDoneEvent(k, QuestionAt(vq, k), message, FALSE))

\* Mutant: a catch branch that only logs.
CatchQuestion_Silent(r, k, vq, message) == r

\* The catch branch of the loop body: answer_done with error true.
CatchQuestion(r, k, vq, message) ==
    SendEvent(r, AnswerDoneEvent(k, QuestionAt(vq, k), <<"Error: ">> \o message, TRUE))

\* Mutant: the loop test off by one, `i < validQuestions.length - 1`.
LoopFrom_SkipLast(r, cs, k, vq) ==
    IF k < Len(vq) - 1
    THEN [res |-> SendEvent(r, ProgressEvent(k, QuestionAt(vq, k), Len(vq))),
          calls |-> Append(cs, [index |-> k, question |-> QuestionAt(vq, k),
                                at |-> Len(r.events) + 1]),
          i |-> k, pc |-> "fetch"]
    ELSE [res |-> End(SendEvent(r, CompleteEvent(Len(vq)))),
          calls |-> cs, i |-> k, pc |-> "done"]

\* The loop from its test `i < validQuestions.length` to the next await:
\* either progress(k) and the fetch call of streamAIToSSE, or complete and
\* res.end().
LoopFrom(r, cs, k, vq) ==
    IF k < Len(vq)
    THEN [res |-> SendEvent(r, ProgressEvent(k, QuestionAt(vq, k), Len(vq))),
          calls |-> Append(cs, [index |-> k, question |-> QuestionAt(vq, k),
                                at |-> Len(r.events) + 1]),
          i |-> k, pc |-> "fetch"]
    ELSE [res |-> End(SendEvent(r, CompleteEvent(Len(vq)))),
          calls |-> cs, i |-> k, pc |-> "done"]

\* err.message of the failures streamAIToSSE throws.
NetworkFailure == <<"request to upstream failed">>
BodyReadFailure == <<"body read failed">>
StreamFailure == <<"stream error">>
ApiError(status) == <<"API Error ", ToString(status), ": ", "upstream error text">>

\* Question lists that mix blank entries ("" and " ") with the questions
\* " a\t" and "b", each question at most once: up to MaxQuestions + 1
\* entries.
MixedStrings == {<<>>, <<" ">>, <<" ", "a", "\t">>, <<"b">>}

MixedLists ==
    {qs \in UNION {[1..n -> MixedStrings] : n \in 1..(MaxQuestions + 1)} :
        \A k, l \in 1..Len(qs) : (k # l /\ qs[k] = qs[l]) => Len(Trim(qs[k])) = 0}

MixedInit ==
    /\ endpoint = "ask-questions"
    /\ body \in {[present |-> TRUE, isArray |-> TRUE, questions |-> qs] : qs \in MixedLists}
    /\ pc = "received"
    /\ validQuestions = <<>>
    /\ i = 0
    /\ res = NewResponse
    /\ calls = <<>>
    /\ streams = [k \in Indices |-> NoStream]
    /\ response = NoResponse
    /\ nchunks = 0
    /\ batches = <<>>

BatchInit ==
    /\ endpoint = "ask-questions"
    /\ body \in Bodies
    /\ pc = "received"
    /\ validQuestions = <<>>
    /\ i = 0
    /\ res = NewResponse
    /\ calls = <<>>
    /\ streams = [k \in Indices |-> NoStream]
    /\ response = NoResponse
    /\ nchunks = 0
    /\ batches = <<>>

\* Lines 118-158: validation, writeHead, and the first pass of the loop up
\* to the fetch of question 0.
Validate ==
    /\ endpoint = "ask-questions"
    /\ pc = "received"
    /\ IF ~body.present \/ ~body.isArray \/ Len(body.questions) = 0
       THEN /\ res' = SendJson(res, 400, ErrorJson(<<"Questions array is required.">>))
            /\ pc' = "rejected"
            /\ UNCHANGED <<validQuestions, i, calls>>
       ELSE LET vq == FilterValid(body.questions) IN
            IF Len(vq) = 0
            THEN /\ res' = SendJson(res, 400, ErrorJson(<<"At least one valid question is required.">>))
                 /\ pc' = "rejected"
                 /\ UNCHANGED <<validQuestions, i, calls>>
            ELSE LET nxt == LoopFrom(WriteHead(res), calls, 0, vq) IN
                 /\ validQuestions' = vq
                 /\ res' = nxt.res
                 /\ calls' = nxt.calls
                 /\ i' = nxt.i
                 /\ pc' = nxt.pc
    /\ UNCHANGED <<batches, endpoint, body, streams, response, nchunks>>

\* The handler resumes after question i settled with response r.
Resume(r) ==
    LET nxt == LoopFrom(r, calls, i + 1, validQuestions) IN
    /\ res' = nxt.res
    /\ calls' = nxt.calls
    /\ i' = nxt.i
    /\ pc' = nxt.pc

\* fetch rejects (network failure): streamAIToSSE throws, the catch branch
\* runs and the loop goes on.
FetchReject ==
    /\ pc = "fetch"
    /\ streams' = [streams EXCEPT ![i] = [@ EXCEPT !.state = "netfail"]]
    /\ Resume(CatchQuestion(res, i, validQuestions, NetworkFailure))
    /\ UNCHANGED <<batches, endpoint, body, validQuestions, response, nchunks>>

\* fetch resolves with a non-success status: response.text() is awaited.
FetchBadStatus ==
    /\ pc = "fetch"
    /\ \E st \in BadStatuses, b \in {"text", "unreadable"} :
         response' = [kind |-> "received", status |-> st, body |-> b]
    /\ streams' = [streams EXCEPT ![i] = [@ EXCEPT !.state = "badstatus"]]
    /\ pc' = "errtext"
    /\ UNCHANGED <<batches, endpoint, body, validQuestions, i, res, calls, nchunks>>

\* response.text() settles: `throw new Error(API Error ...)`, or the
\* rejection of text() itself; both reach the catch branch.
ErrText ==
    /\ pc = "errtext"
    /\ Resume(CatchQuestion(res, i, validQuestions,
                            IF response.body = "unreadable"
                            THEN BodyReadFailure
                            ELSE ApiError(response.status)))
    /\ response' = NoResponse
    /\ UNCHANGED <<batches, endpoint, body, validQuestions, streams, nchunks>>

\* fetch resolves with a success status: the listeners are registered and
\* the promise of lines 81-105 is pending.
FetchOk ==
    /\ pc = "fetch"
    /\ \E s \in Streams :
         streams' = [streams EXCEPT ![i] =
                        [state |-> "open", full |-> s, rest |-> s, buffer |-> <<>>,
                         fullAnswer |-> <<>>, settled |-> "pending",
                         sentinelSent |-> FALSE]]
    /\ pc' = "stream"
    /\ UNCHANGED <<batches, endpoint, body, validQuestions, i, res, calls, response, nchunks>>

\* One 'data' event of the response body of question j: the listener of
\* lines 82-102, and, when it resolves the pending promise, the rest of
\* the loop body and the loop up to the next await.
Data(j) ==
    /\ streams[j].state = "open"
    /\ streams[j].rest # <<>>
    /\ nchunks < MaxChunks
    /\ \E k \in 1..Len(streams[j].rest) :
         LET s == streams[j]
             d == OnData(s.buffer, s.fullAnswer, SubSeq(s.rest, 1, k), j)
             resolves == d.sentinel /\ s.settled = "pending"
             r1 == SendAll(res, d.tokens)
         IN  /\ streams' = [streams EXCEPT ![j] =
                              [s EXCEPT !.rest = SubSeq(s.rest, k + 1, Len(s.rest)),
                                        !.buffer = d.buffer,
                                        !.fullAnswer = d.fullAnswer,
                                        !.settled = IF resolves THEN "resolved" ELSE @,
                                        !.sentinelSent =
                                            SentinelSent(SubSeq(s.full, 1,
                                                Len(s.full) - Len(s.rest) + k))]]
             /\ IF resolves
                THEN Resume(FinishQuestion(r1, j, validQuestions, d.fullAnswer))
                ELSE /\ res' = r1
                     /\ UNCHANGED <<pc, i, calls>>
    /\ nchunks' = nchunks + 1
    /\ UNCHANGED <<batches, endpoint, body, validQuestions, response>>

\* Mutant: no 'end' listener; the close of the body resumes nobody.
StreamEnd_Unheard(j) ==
    /\ streams[j].state = "open"
    /\ streams[j].rest = <<>>
    /\ streams' = [streams EXCEPT ![j] = [@ EXCEPT !.state = "ended"]]
    /\ UNCHANGED <<pc, i, res, calls>>
    /\ UNCHANGED <<batches, endpoint, body, validQuestions, response, nchunks>>

\* The 'end' event of the response body of question j: resolve.
StreamEnd(j) ==
    /\ streams[j].state = "open"
    /\ streams[j].rest = <<>>
    /\ streams' = [streams EXCEPT ![j] =
                     [@ EXCEPT !.state = "ended",
                               !.settled = IF @ = "pending" THEN "resolved" ELSE @]]
    /\ IF streams[j].settled = "pending"
       THEN Resume(FinishQuestion(res, j, validQuestions, streams[j].fullAnswer))
       ELSE UNCHANGED <<pc, i, res, calls>>
    /\ UNCHANGED <<batches, endpoint, body, validQuestions, response, nchunks>>

\* The 'error' event of the response body of question j: reject.  The body
\* is destroyed: no listener of it fires again, and the buffer and answer of
\* its closure are dropped.
StreamError(j) ==
    /\ streams[j].state = "open"
    /\ streams' = [streams EXCEPT ![j] =
                     [NoStream EXCEPT
                        !.state = "errored",
                        !.sentinelSent = streams[j].sentinelSent,
                        !.settled = IF streams[j].settled = "pending"
                                    THEN "rejected" ELSE streams[j].settled]]
    /\ IF streams[j].settled = "pending"
       THEN Resume(CatchQuestion(res, j, validQuestions, StreamFailure))
       ELSE UNCHANGED <<pc, i, res, calls>>
    /\ UNCHANGED <<batches, endpoint, body, validQuestions, response, nchunks>>

\* ------------------------------------------------------- caller disconnect
\* The caller closes the connection of a running batch.  The handler
\* registers no listener for 'close' on req or res and passes no abort
\* signal to fetch: only the response object changes.
ClientClose ==
    /\ endpoint = "ask-questions"
    /\ res.sse /\ ~res.finished /\ ~res.destroyed
    /\ res' = [res EXCEPT !.destroyed = TRUE]
    /\ UNCHANGED <<batches, endpoint, body, pc, validQuestions, i, calls, streams, response, nchunks>>

\* --------------------------------------------------------- internal faults
\* err.message of an exception a statement of the handler throws outside
\* the inner try (a question that is no string makes q.trim() of line 124
\* throw; after writeHead, a sendEvent that throws).
InternalFault == <<"internal fault">>

\* Mutant: the catch block writes the error event and leaves the channel open.
OuterCatch_LeftOpen(r, message) ==
    IF ~r.headersSent
    THEN SendJson(r, 500, InternalError(message))
    ELSE SendEvent(r, ErrorEvent(message))

\* The outer catch block of the batch handler, lines 200-208.
OuterCatch(r, message) ==
    IF ~r.headersSent
    THEN SendJson(r, 500, InternalError(message))
    ELSE End(SendEvent(r, ErrorEvent(message)))

\* The handler throws before its first await: in lines 118-129, before
\* writeHead, or in lines 141-158, after it and before progress(0) is written.
ValidateThrow ==
    /\ endpoint = "ask-questions"
    /\ pc = "received"
    /\ \/ res' = OuterCatch(res, InternalFault)
       \/ /\ body.present /\ body.isArray
          /\ Len(FilterValid(body.questions)) > 0
          /\ res' = OuterCatch(WriteHead(res), InternalFault)
    /\ pc' = "faulted"
    /\ UNCHANGED <<batches, endpoint, body, validQuestions, i, calls, streams, response, nchunks>>

\* The handler resumed after question i settled with response r, and the
\* next statement outside the inner try throws.
ResumeThrow(r) ==
    /\ res' = OuterCatch(r, InternalFault)
    /\ pc' = "faulted"
    /\ UNCHANGED <<i, calls>>

\* fetch rejects, the inner catch branch runs, and the handler throws on
\* its way to the next await.
FetchRejectThrow ==
    /\ pc = "fetch"
    /\ streams' = [streams EXCEPT ![i] = [@ EXCEPT !.state = "netfail"]]
    /\ ResumeThrow(CatchQuestion(res, i, validQuestions, NetworkFailure))
    /\ UNCHANGED <<batches, endpoint, body, validQuestions, response, nchunks>>

\* The 'end' event resolves the pending promise, answer_done is written,
\* and the handler throws on its way to the next await.
StreamEndThrow(j) ==
    /\ streams[j].state = "open"
    /\ streams[j].rest = <<>>
    /\ streams[j].settled = "pending"
    /\ streams' = [streams EXCEPT ![j] =
                     [@ EXCEPT !.state = "ended", !.settled = "resolved"]]
    /\ ResumeThrow(FinishQuestion(res, j, validQuestions, streams[j].fullAnswer))
    /\ UNCHANGED <<batches, endpoint, body, validQuestions, response, nchunks>>

\* ------------------------------------------------------ concurrent batches
\* Two batch requests in one server process.  Each call of the handler and
\* each call of streamAIToSSE has its own locals (validQuestions, i, res,
\* fullAnswer, buffer, reader); the module-level bindings (app, PORT,
\* API_KEY, SYSTEM_PROMPT) are never assigned after start-up.
Requests == {1, 2}

\* The question list of each request.
QuestionsOf(r) == IF r = 1 THEN <<<<" ", "a", "\t">>>> ELSE <<<<"b">>>>

\* Upstream bodies of the concurrent requests.
TwoStreams == Streams

\* The state of one request: the locals of its handler call and of its
\* streamAIToSSE calls.
NewBatch(qs) ==
    [questions |-> qs, pc |-> "received", validQuestions |-> <<>>, i |-> 0,
     res |-> NewResponse, calls |-> <<>>,
     streams |-> [k \in Indices |-> NoStream], nchunks |-> 0]

\* Mutant: `buffer` declared at module level, one for all requests.
BufferOf_Shared(bs, r, j) == bs[1].streams[j].buffer

\* `let buffer = ''` of the streamAIToSSE call of question j of request r.
BufferOf(bs, r, j) == bs[r].streams[j].buffer

\* The handler of request b resumes after question i settled with response r.
Resumed(b, r) ==
    LET nxt == LoopFrom(r, b.calls, b.i + 1, b.validQuestions)
    IN  [b EXCEPT !.res = nxt.res, !.calls = nxt.calls, !.i = nxt.i, !.pc = nxt.pc]

solo == <<endpoint, body, pc, validQuestions, i, res, calls, streams, response, nchunks>>

TwoInit ==
    /\ batches = [r \in Requests |-> NewBatch(QuestionsOf(r))]
    /\ endpoint = "ask-questions"
    /\ body = [present |-> FALSE, isArray |-> FALSE, questions |-> <<>>]
    /\ pc = "concurrent"
    /\ validQuestions = <<>>
    /\ i = 0
    /\ res = NewResponse
    /\ calls = <<>>
    /\ streams = [k \in Indices |-> NoStream]
    /\ response = NoResponse
    /\ nchunks = 0

\* Lines 118-158 for request r.
TwoValidate(r) ==
    LET b == batches[r]
        vq == FilterValid(b.questions)
        nxt == LoopFrom(WriteHead(b.res), b.calls, 0, vq)
    IN  /\ b.pc = "received"
        /\ batches' = [batches EXCEPT ![r] =
                IF Len(b.questions) = 0
                THEN [b EXCEPT !.pc = "rejected",
                               !.res = SendJson(@, 400, ErrorJson(<<"Questions array is required.">>))]
                ELSE IF Len(vq) = 0
                THEN [b EXCEPT !.pc = "rejected",
                               !.res = SendJson(@, 400, ErrorJson(<<"At least one valid question is required.">>))]
                ELSE [b EXCEPT !.validQuestions = vq, !.res = nxt.res,
                               !.calls = nxt.calls, !.i = nxt.i, !.pc = nxt.pc]]
        /\ UNCHANGED solo

\* fetch of request r rejects.
TwoFetchReject(r) ==
    LET b == batches[r] IN
    /\ b.pc = "fetch"
    /\ batches' = [batches EXCEPT ![r] =
            Resumed([b EXCEPT !.streams[b.i].state = "netfail"],
                    CatchQuestion(b.res, b.i, b.validQuestions, NetworkFailure))]
    /\ UNCHANGED solo

\* fetch of request r resolves with a success status.
TwoFetchOk(r) ==
    LET b == batches[r] IN
    /\ b.pc = "fetch"
    /\ \E s \in TwoStreams :
         batches' = [batches EXCEPT ![r] =
            [b EXCEPT !.pc = "stream",
                      !.streams[b.i] =
                        [state |-> "open", full |-> s, rest |-> s, buffer |-> <<>>,
                         fullAnswer |-> <<>>, settled |-> "pending",
                         sentinelSent |-> FALSE]]]
    /\ UNCHANGED solo

\* One 'data' event of the body of question j of request r.
TwoData(r, j) ==
    LET b == batches[r]
        s == b.streams[j]
    IN  /\ s.state = "open"
        /\ s.rest # <<>>
        /\ b.nchunks < MaxChunks
        /\ \E k \in 1..Len(s.rest) :
             LET d == OnData(BufferOf(batches, r, j), s.fullAnswer, SubSeq(s.rest, 1, k), j)
                 resolves == d.sentinel /\ s.settled = "pending"
                 r1 == SendAll(b.res, d.tokens)
                 b1 == [b EXCEPT !.nchunks = @ + 1,
                                 !.streams[j] =
                                    [s EXCEPT !.rest = SubSeq(s.rest, k + 1, Len(s.rest)),
                                              !.buffer = d.buffer,
                                              !.fullAnswer = d.fullAnswer,
                                              !.settled = IF resolves THEN "resolved" ELSE @,
                                              !.sentinelSent =
                                                SentinelSent(SubSeq(s.full, 1,
                                                    Len(s.full) - Len(s.rest) + k))]]
             IN  batches' = [batches EXCEPT ![r] =
                    IF resolves
                    THEN Resumed(b1, FinishQuestion(r1, j, b.validQuestions, d.fullAnswer))
                    ELSE [b1 EXCEPT !.res = r1]]
        /\ UNCHANGED solo

\* The 'end' event of the body of question j of request r.
TwoStreamEnd(r, j) ==
    LET b == batches[r]
        s == b.streams[j]
        b1 == [b EXCEPT !.streams[j] =
                 [s EXCEPT !.state = "ended",
                           !.settled = IF @ = "pending" THEN "resolved" ELSE @]]
    IN  /\ s.state = "open"
        /\ s.rest = <<>>
        /\ batches' = [batches EXCEPT ![r] =
                IF s.settled = "pending"
                THEN Resumed(b1, FinishQuestion(b.res, j, b.validQuestions, s.fullAnswer))
                ELSE b1]
        /\ UNCHANGED solo

\* The 'error' event of the body of question j of request r.
TwoStreamError(r, j) ==
    LET b == batches[r]
        s == b.streams[j]
        b1 == [b EXCEPT !.streams[j] =
                 [NoStream EXCEPT
                    !.state = "errored",
                    !.sentinelSent = s.sentinelSent,
                    !.settled = IF s.settled = "pending" THEN "rejected" ELSE s.settled]]
    IN  /\ s.state = "open"
        /\ batches' = [batches EXCEPT ![r] =
                IF s.settled = "pending"
                THEN Resumed(b1, CatchQuestion(b.res, j, b.validQuestions, StreamFailure))
                ELSE b1]
        /\ UNCHANGED solo

\* ------------------------------------------------------ single-shot relay
\* A field of a single-shot request body: undefined, or a string.
Undefined == [defined |-> FALSE, str |-> <<>>]
Str(cs) == [defined |-> TRUE, str |-> cs]

FieldValues == {Undefined, Str(<<>>), Str(<<" ">>), Str(<<" ", "x">>)}

\* !v is false
Truthy(v) == v.defined /\ v.str # <<>>

\* v?.trim() is truthy
TrimTruthy(v) == v.defined /\ Trim(v.str) # <<>>

ChatBodies ==
    {[originalQuestion |-> q, originalAnswer |-> a, userMessage |-> m] :
        q \in FieldValues, a \in FieldValues, m \in FieldValues}
DetailedBodies == {[question |-> q] : q \in FieldValues}
SummarizeBodies == {[question |-> q, answer |-> a] : q \in FieldValues, a \in FieldValues}

\* Statuses and bodies the upstream answers a non-streaming call with.  A
\* body is unreadable (its stream fails), no JSON, or JSON whose
\* choices[0].message.content is absent, "", " ", or " Hi ".
Statuses == {200, 429, 500}
ResponseBodies == {"unreadable", "not-json", "no-choices", "empty", "blank", "text"}

\* data.choices?.[0]?.message?.content of a JSON body
MessageContent(b) ==
    CASE b = "empty" -> Str(<<>>)
      [] b = "blank" -> Str(<<" ">>)
      [] b = "text" -> Str(<<" ", "H", "i", " ">>)
      [] OTHER -> Undefined

\* The condition of the 400 response of each handler.
ChatInvalid(b) ==
    ~Truthy(b.originalQuestion) \/ ~Truthy(b.originalAnswer) \/ ~TrimTruthy(b.userMessage)
DetailedInvalid(b) == ~TrimTruthy(b.question)
SummarizeInvalid(b) == ~Truthy(b.question) \/ ~Truthy(b.answer)

Invalid(e, b) ==
    CASE e = "chat" -> ChatInvalid(b)
      [] e = "detailed-answer" -> DetailedInvalid(b)
      [] e = "summarize-answer" -> SummarizeInvalid(b)

RequiredMessage(e) ==
    CASE e = "chat" -> <<"originalQuestion, originalAnswer, and userMessage are required.">>
      [] e = "detailed-answer" -> <<"Question is required.">>
      [] e = "summarize-answer" -> <<"Both required.">>

\* The body of the 500 response for a non-success upstream status.
ApiFailed(e, status) ==
    IF e = "chat"
    THEN <<"AI API failed: ", ToString(status)>>
    ELSE <<"API failed: ", ToString(status)>>

\* The body of the 500 response for a success without text.
InvalidResponse(e) ==
    IF e = "chat"
    THEN <<"Invalid response from AI service">>
    ELSE <<"Invalid response format">>

\* callAI(messages, maxTokens, temperature) of each handler.
CallAI(e) ==
    CASE e = "chat" -> [endpoint |-> e, maxTokens |-> 800, stream |-> FALSE]
      [] e = "detailed-answer" -> [endpoint |-> e, maxTokens |-> 1000, stream |-> FALSE]
      [] e = "summarize-answer" -> [endpoint |-> e, maxTokens |-> 150, stream |-> FALSE]

SingleEndpoints == {"chat", "detailed-answer", "summarize-answer"}

SingleInit ==
    /\ endpoint \in SingleEndpoints
    /\ body \in (CASE endpoint = "chat" -> ChatBodies
                   [] endpoint = "detailed-answer" -> DetailedBodies
                   [] endpoint = "summarize-answer" -> SummarizeBodies)
    /\ pc = "received"
    /\ validQuestions = <<>>
    /\ i = 0
    /\ res = NewResponse
    /\ calls = <<>>
    /\ streams = [k \in Indices |-> NoStream]
    /\ response = NoResponse
    /\ nchunks = 0
    /\ batches = <<>>

\* The handler up to `await callAI(...)`: the 400 response, or the call.
SingleValidate ==
    /\ endpoint \in SingleEndpoints
    /\ pc = "received"
    /\ IF Invalid(endpoint, body)
       THEN /\ res' = SendJson(res, 400, ErrorJson(RequiredMessage(endpoint)))
            /\ pc' = "responded"
            /\ UNCHANGED calls
       ELSE /\ calls' = Append(calls, CallAI(endpoint))
            /\ pc' = "callAI"
            /\ UNCHANGED res
    /\ UNCHANGED <<batches, endpoint, body, validQuestions, i, streams, response, nchunks>>

\* fetch rejects (network failure): the catch branch answers.
CallReject ==
    /\ pc = "callAI"
    /\ response' = [kind |-> "rejected", status |-> 0, body |-> "none"]
    /\ res' = SendJson(res, 500, InternalError(NetworkFailure))
    /\ pc' = "responded"
    /\ UNCHANGED <<batches, endpoint, body, validQuestions, i, calls, streams, nchunks>>

\* fetch resolves: `if (!response.ok)`, then the await of text() (chat) or
\* json().
CallResolve ==
    /\ pc = "callAI"
    /\ \E st \in Statuses, b \in ResponseBodies :
         LET r == [kind |-> "received", status |-> st, body |-> b] IN
         /\ response' = r
         /\ IF Ok(r)
            THEN pc' = "json" /\ UNCHANGED res
            ELSE IF endpoint = "chat"
            THEN pc' = "text" /\ UNCHANGED res
            ELSE /\ res' = SendJson(res, 500, ErrorJson(ApiFailed(endpoint, st)))
                 /\ pc' = "responded"
    /\ UNCHANGED <<batches, endpoint, body, validQuestions, i, calls, streams, nchunks>>

\* /api/chat: response.text() settles.
ChatText ==
    /\ pc = "text"
    /\ res' = IF response.body = "unreadable"
              THEN SendJson(res, 500, InternalError(BodyReadFailure))
              ELSE SendJson(res, 500, ErrorJson(ApiFailed(endpoint, response.status)))
    /\ pc' = "responded"
    /\ UNCHANGED <<batches, endpoint, body, validQuestions, i, calls, streams, response, nchunks>>

\* response.json() settles, the text is extracted and the answer is sent.
JsonSettle ==
    /\ pc = "json"
    /\ LET content == MessageContent(response.body)
           reply == Trim(content.str)
       IN  res' = IF response.body = "unreadable"
                  THEN SendJson(res, 500, InternalError(BodyReadFailure))
                  ELSE IF response.body = "not-json"
                  THEN SendJson(res, 500, InternalError(<<"invalid json response body">>))
                  ELSE IF ~content.defined \/ reply = <<>>
                  THEN SendJson(res, 500, ErrorJson(InvalidResponse(endpoint)))
                  ELSE SendJson(res, 200, [NoJson EXCEPT !.success = TRUE, !.text = reply])
    /\ pc' = "responded"
    /\ UNCHANGED <<batches, endpoint, body, validQuestions, i, calls, streams, response, nchunks>>

\* ----------------------------------------------------------- specification
Init == BatchInit \/ SingleInit

Next ==
    \/ Validate
    \/ FetchReject
    \/ FetchBadStatus
    \/ ErrText
    \/ FetchOk
    \/ \E j \in Indices : Data(j)
    \/ \E j \in Indices : StreamEnd(j)
    \/ \E j \in Indices : StreamError(j)
    \/ SingleValidate
    \/ CallReject
    \/ CallResolve
    \/ ChatText
    \/ JsonSettle

Spec == Init /\ [][Next]_vars

\* The batch handler alone.
NextBatch ==
    \/ Validate
    \/ FetchReject
    \/ FetchBadStatus
    \/ ErrText
    \/ FetchOk
    \/ \E j \in Indices : Data(j)
    \/ \E j \in Indices : StreamEnd(j)
    \/ \E j \in Indices : StreamError(j)

\* The batch handler with statements that throw outside the inner try.
NextFault ==
    \/ NextBatch
    \/ ValidateThrow
    \/ FetchRejectThrow
    \/ \E j \in Indices : StreamEndThrow(j)

SpecFault == BatchInit /\ [][NextFault]_vars

\* The batch handler with an upstream that goes on: a pending fetch
\* settles, an open body delivers a chunk, closes or fails, and the event
\* loop runs the handler.
SpecFair == BatchInit /\ [][NextBatch]_vars /\ WF_vars(NextBatch)

\* The batch handler on lists that mix blank entries and questions.
SpecMixed == MixedInit /\ [][NextBatch]_vars

\* Two batch requests whose upstream events arrive in any interleaving.
NextTwo ==
    \/ \E r \in Requests : TwoValidate(r)
    \/ \E r \in Requests : TwoFetchReject(r)
    \/ \E r \in Requests : TwoFetchOk(r)
    \/ \E r \in Requests, j \in Indices : TwoData(r, j)
    \/ \E r \in Requests, j \in Indices : TwoStreamEnd(r, j)
    \/ \E r \in Requests, j \in Indices : TwoStreamError(r, j)

SpecTwo == TwoInit /\ [][NextTwo]_vars

\* The batch handler and a caller that may disconnect.
NextDisconnect ==
    \/ NextBatch
    \/ ClientClose

SpecDisconnect == BatchInit /\ [][NextDisconnect]_vars

\* ------------------------------------------------------------- properties
Batch == endpoint = "ask-questions"

Events == res.events

\* The number of events of a type on the channel.
TypeCount(t) == Cardinality({p \in 1..Len(Events) : Events[p].type = t})

\* Positions on the channel of the events of a type with an index.
Positions(t, idx) ==
    {p \in 1..Len(Events) : Events[p].type = t /\ Events[p].index = idx}

\* The index fields of the events of a type, in the order written.
IndexSeq(t) ==
    LET sel == SelectSeq(Events, LAMBDA e : e.type = t)
    IN  [k \in 1..Len(sel) |-> sel[k].index]

\* <<0, 1, ..., n-1>>
Iota(n) == [k \in 1..n |-> k - 1]

IsPrefix(s, t) == Len(s) <= Len(t) /\ s = SubSeq(t, 1, Len(s))

\* A blank question: nothing but whitespace.
IsBlank(q) == \A k \in 1..Len(q) : q[k] \in Whitespace

IsList == body.present /\ body.isArray

AllNonBlank ==
    /\ IsList
    /\ Len(body.questions) >= 1
    /\ \A k \in 1..Len(body.questions) : ~IsBlank(body.questions[k])

\* C1: for a batch of N >= 1 non-blank questions and every combination of
\* upstream outcomes, the progress and the answer_done events written so far
\* carry the indices 0, 1, ... in increasing order, progress(i) precedes
\* answer_done(i), at most one complete event is written, and once the
\* handler is through the stream holds exactly N progress events, exactly N
\* answer_done events and exactly one complete event.
C1_EventCounts ==
    (Batch /\ AllNonBlank) =>
        LET N == Len(body.questions) IN
        /\ IsPrefix(IndexSeq("progress"), Iota(N))
        /\ IsPrefix(IndexSeq("answer_done"), Iota(N))
        /\ TypeCount("complete") <= 1
        /\ \A idx \in 0..(N - 1) :
             \A d \in Positions("answer_done", idx) :
                \E p \in Positions("progress", idx) : p < d
        /\ pc = "done" =>
             /\ IndexSeq("progress") = Iota(N)
             /\ IndexSeq("answer_done") = Iota(N)
             /\ TypeCount("complete") = 1

\* Witness of C1: a finished batch of two non-blank questions, the first with
\* a network failure and the second with a stream that ended.
C1_Witness ==
    /\ Batch /\ AllNonBlank /\ pc = "done"
    /\ Len(body.questions) = 2
    /\ streams[0].state = "netfail"
    /\ streams[1].state = "ended"
    /\ TypeCount("answer_done") = 2

\* C2: every token event with index i is written after progress(i) and
\* before answer_done(i): no token(i) follows answer_done(i) on the channel.
C2_TokensBeforeAnswerDone ==
    Batch =>
        \A p \in 1..Len(Events) :
            Events[p].type = "token" =>
                /\ \E q \in Positions("progress", Events[p].index) : q < p
                /\ \A d \in Positions("answer_done", Events[p].index) : p < d

\* C3: questions are processed strictly sequentially: every event with index
\* k >= 1 is written after answer_done(k-1), the upstream request for question
\* k is issued after answer_done(k-1) was written, the requests are issued in
\* index order, and at most one question awaits its stream at a time.
C3_Sequential ==
    Batch =>
        /\ \A p \in 1..Len(Events) :
             (Events[p].type # "complete" /\ Events[p].index >= 1) =>
                \E d \in Positions("answer_done", Events[p].index - 1) : d < p
        /\ \A c \in 1..Len(calls) :
             /\ calls[c].index = c - 1
             /\ calls[c].index >= 1 =>
                  \E d \in Positions("answer_done", calls[c].index - 1) : d < calls[c].at
        /\ Cardinality({j \in Indices : streams[j].settled = "pending"}) <= 1

\* Witness of C3: the second question was requested and has written a token.
C3_Witness ==
    /\ Batch
    /\ Len(calls) = 2
    /\ Positions("token", 1) # {}
    /\ Positions("token", 0) # {}

RECURSIVE Flatten(_)
\* The concatenation of a sequence of strings.
Flatten(ss) == IF ss = <<>> THEN <<>> ELSE Head(ss) \o Flatten(Tail(ss))

\* The chunk fields of the token events with an index, in the order written.
TokenChunks(idx) ==
    LET sel == SelectSeq(Events, LAMBDA e : e.type = "token" /\ e.index = idx)
    IN  [k \in 1..Len(sel) |-> sel[k].chunk]

\* C4: the answer of every answer_done(i) with error=false is the
\* concatenation, in order, of the chunk fields of all token events written
\* for index i, each token carrying one delta.
C4_AnswerIsTokenConcat ==
    Batch =>
        \A p \in 1..Len(Events) :
            (Events[p].type = "answer_done" /\ ~Events[p].error) =>
                Events[p].answer = Flatten(TokenChunks(Events[p].index))

\* What the upstream has delivered of the body of question j.
Delivered(j) ==
    SubSeq(streams[j].full, 1, Len(streams[j].full) - Len(streams[j].rest))

\* The text delta a frame carries, <<>> when it carries none.
FrameDelta(line) ==
    IF IsDataFrame(line) /\ NonWs(Tail(line)) = <<JHel>> THEN <<"H", "e", "l">>
    ELSE IF IsDataFrame(line) /\ NonWs(Tail(line)) = <<JLo>> THEN <<"l", "o">>
    ELSE <<>>

\* A data line that is neither the sentinel nor a frame with a text delta.
IsMalformedFrame(line) ==
    IsDataFrame(line) /\ ~IsSentinelFrame(line) /\ FrameDelta(line) = <<>>

RECURSIVE DeltasOf(_)
\* The deltas of the well-formed frames among lines, in order.
DeltasOf(lines) ==
    IF lines = <<>> THEN <<>>
    ELSE IF FrameDelta(Head(lines)) # <<>>
    THEN <<FrameDelta(Head(lines))>> \o DeltasOf(Tail(lines))
    ELSE DeltasOf(Tail(lines))

SentinelDelivered(j) == streams[j].sentinelSent

\* The upstream call of question j failed: network failure, non-success
\* status, or a stream error before the sentinel.
UpstreamFailed(j) ==
    \/ streams[j].state \in {"netfail", "badstatus"}
    \/ streams[j].state = "errored" /\ ~SentinelDelivered(j)

\* The handler is through question j.
Over(j) == pc = "done" \/ (pc \in {"fetch", "errtext", "stream"} /\ i > j)

\* C5: when the upstream call of question j fails, exactly one
\* answer_done(j) is written and it has error=true; the batch goes on: the
\* next question gets its progress event and its upstream request at once,
\* the channel stays open until the loop is through, and at the end every
\* later question has one progress and one answer_done event and the stream
\* ends with one complete event.
C5_FailureIsolation ==
    Batch =>
        \A j \in Indices :
            (UpstreamFailed(j) /\ Over(j)) =>
                LET N == Len(validQuestions) IN
                /\ Cardinality(Positions("answer_done", j)) = 1
                /\ \A d \in Positions("answer_done", j) : Events[d].error
                /\ j + 1 < N =>
                     /\ Positions("progress", j + 1) # {}
                     /\ \E c \in 1..Len(calls) : calls[c].index = j + 1
                /\ res.finished => pc = "done"
                /\ pc = "done" =>
                     /\ \A k \in (j + 1)..(N - 1) :
                          /\ Cardinality(Positions("progress", k)) = 1
                          /\ Cardinality(Positions("answer_done", k)) = 1
                          /\ \E c \in 1..Len(calls) : calls[c].index = k
                     /\ TypeCount("complete") = 1
                     /\ Events[Len(Events)].type = "complete"

\* Witness of C5: the stream of question 0 failed after a token, question 1
\* was answered without error, and the batch is complete.
C5_Witness ==
    /\ Batch /\ pc = "done"
    /\ streams[0].state = "errored" /\ UpstreamFailed(0)
    /\ Positions("token", 0) # {}
    /\ \E d \in Positions("answer_done", 1) : ~Events[d].error

\* The request carries no question that is not blank.
NoUsableQuestion ==
    ~IsList \/ \A k \in 1..Len(body.questions) : IsBlank(body.questions[k])

\* C6: a batch request whose question list is missing, no array, empty or
\* all blank is answered with 400; the event channel is never opened, no
\* event is written and no upstream request is issued.
C6_RejectsBlankBatch ==
    (Batch /\ NoUsableQuestion) =>
        /\ Events = <<>>
        /\ ~res.sse
        /\ calls = <<>>
        /\ pc \in {"received", "rejected"}
        /\ pc = "rejected" => (res.status = 400 /\ res.finished)

\* Witness of C6: a rejected list of two entries, one of them whitespace.
C6_Witness ==
    /\ Batch /\ pc = "rejected" /\ IsList
    /\ Len(body.questions) = 2
    /\ body.questions[1] = <<" ">>
    /\ res.status = 400

\* C9: in a stream that has delivered a malformed frame (and no sentinel
\* yet), the token events of the question are exactly the deltas of the
\* well-formed frames delivered, in order, also of those after the malformed
\* frame; the accumulated answer is their concatenation; the stream is still
\* being read; the malformed frame is reported nowhere (answer_done has
\* error=true only for an upstream failure); and when the stream ends the
\* question gets answer_done(error=false) with that answer.
C9_MalformedSkipped ==
    Batch =>
        \A j \in Indices :
            LET lines == CompleteLines(Delivered(j)) IN
            (/\ streams[j].state \in {"open", "ended", "errored"}
             /\ ~SentinelDelivered(j)
             /\ \E k \in 1..Len(lines) : IsMalformedFrame(lines[k])) =>
                /\ TokenChunks(j) = DeltasOf(lines)
                /\ streams[j].fullAnswer = Flatten(DeltasOf(lines))
                /\ streams[j].state = "open" => streams[j].settled = "pending"
                /\ \A d \in Positions("answer_done", j) :
                     Events[d].error => UpstreamFailed(j)
                /\ streams[j].state = "ended" =>
                     /\ Cardinality(Positions("answer_done", j)) = 1
                     /\ \A d \in Positions("answer_done", j) :
                          /\ ~Events[d].error
                          /\ Events[d].answer = Flatten(DeltasOf(lines))

\* Witness of C9: a stream with two malformed frames before a well-formed
\* one ended; the token of the well-formed frame was written.
C9_Witness ==
    /\ Batch
    /\ streams[0].full = StreamMalformed
    /\ streams[0].state = "ended"
    /\ TokenChunks(0) = <<<<"l", "o">>>>
    /\ \E d \in Positions("answer_done", 0) : ~Events[d].error

\* C10: the complete event is written at most once, it is the last event on
\* the channel, it follows answer_done(N-1) directly, the channel is closed
\* with it, and nothing is written to the channel afterwards, also when a
\* data listener that is still registered fires after the close.
C10_CompleteIsLast ==
    Batch =>
        /\ TypeCount("complete") <= 1
        /\ \A p \in 1..Len(Events) :
             Events[p].type = "complete" =>
                /\ p = Len(Events)
                /\ res.finished
                /\ p > 1
                /\ Events[p - 1].type = "answer_done"
                /\ Events[p - 1].index = Len(validQuestions) - 1
        /\ (res.sse /\ res.finished) => Events[Len(Events)].type = "complete"

\* Witness of C10: a data listener fired after complete was written and the
\* channel closed.
C10_Witness ==
    /\ Batch /\ pc = "done"
    /\ res.writeAfterEnd
    /\ Events[Len(Events)].type = "complete"

Single == endpoint \in SingleEndpoints

\* The required fields of each single-shot endpoint.
RequiredFields(e) ==
    CASE e = "chat" -> {"originalQuestion", "originalAnswer", "userMessage"}
      [] e = "detailed-answer" -> {"question"}
      [] e = "summarize-answer" -> {"question", "answer"}

\* A field that is missing, empty or whitespace-only.
FieldBlank(v) == ~v.defined \/ IsBlank(v.str)

\* C7: a single-shot request in which a required field is missing or blank
\* (empty or whitespace-only) is answered with 400 and issues no upstream
\* request.
C7_BlankFieldsRejected ==
    (Single /\ \E f \in RequiredFields(endpoint) : FieldBlank(body[f])) =>
        /\ calls = <<>>
        /\ pc \in {"received", "responded"}
        /\ pc = "responded" => res.status = 400

\* The error fields a transport failure (network failure, non-success
\* status) produces at an endpoint.
TransportErrors(e) ==
    {<<"Internal server error">>} \cup {ApiFailed(e, st) : st \in Statuses}

\* An upstream success that carries no generated text.
NoGeneratedText ==
    /\ response.kind = "received" /\ Ok(response)
    /\ response.body \in {"not-json", "no-choices", "empty", "blank"}

\* C8: of the upstream responses whose body arrives whole, a non-success
\* status is answered with a 500 whose error embeds the upstream status; a
\* success without generated text is answered with a 500 whose error no
\* transport failure produces; and a success response is sent only when
\* non-empty text was extracted.
C8_FailuresDistinguishable ==
    (Single /\ pc = "responded" /\ response.kind = "received"
            /\ response.body # "unreadable") =>
        /\ ~Ok(response) =>
             /\ res.status = 500
             /\ \E k \in 1..Len(res.json.error) :
                  res.json.error[k] = ToString(response.status)
        /\ NoGeneratedText =>
             /\ res.status = 500
             /\ res.json.error \notin TransportErrors(endpoint)
        /\ res.json.success =>
             /\ Ok(response)
             /\ res.status = 200
             /\ res.json.text # <<>>
             /\ response.body = "text"

\* C11: when a statement of the batch handler throws after the event
\* channel was opened, exactly one event of type 'error' is written, it is
\* the last event, and the channel is closed; when it throws before the
\* channel is opened, the response is a 500 and no event is written; and no
\* error event is written without such a fault.
C11_FaultReported ==
    Batch =>
        /\ pc = "faulted" =>
             /\ res.finished
             /\ IF res.sse
                THEN /\ TypeCount("error") = 1
                     /\ Events[Len(Events)].type = "error"
                     /\ res.status = 200
                ELSE /\ res.status = 500
                     /\ res.json.error = <<"Internal server error">>
                     /\ Events = <<>>
        /\ pc # "faulted" => TypeCount("error") = 0

\* Witness of C11: the handler threw after tokens and the answer_done of
\* question 0 were written; the error event follows them.
C11_Witness ==
    /\ Batch /\ pc = "faulted" /\ res.sse
    /\ Positions("token", 0) # {}
    /\ Positions("answer_done", 0) # {}
    /\ Events[Len(Events)].type = "error"

\* C12: once the caller has disconnected from a running batch, no further
\* upstream request is issued for that batch and nothing more is read from
\* the upstream request that was in flight.
C12_AbandonedOnDisconnect ==
    [][(Batch /\ res.destroyed) => (calls' = calls /\ nchunks' = nchunks)]_vars

RECURSIVE BeforeSentinel(_)
\* The lines that precede the first terminal frame.
BeforeSentinel(lines) ==
    IF lines = <<>> \/ IsSentinelFrame(Head(lines)) THEN <<>>
    ELSE <<Head(lines)>> \o BeforeSentinel(Tail(lines))

\* The frames the upstream has delivered for question j up to the terminal
\* frame: the newline-terminated lines, and, once the body has closed, also
\* its last line.
FramesDelivered(j) ==
    BeforeSentinel(IF streams[j].state = "ended"
                   THEN Split(Delivered(j))
                   ELSE CompleteLines(Delivered(j)))

\* The answer fields of the answer_done events of a question without error.
Answers(j) ==
    {Events[d].answer : d \in {p \in Positions("answer_done", j) : ~Events[p].error}}

\* C13: every frame with a text delta that the upstream delivered for
\* question j before the terminal frame or the close of the body has
\* yielded exactly one token event of index j, in order, and its delta is
\* part of the answer of answer_done(j); this holds for a frame that arrived
\* whole, for one split across chunks, and for the last line of a body that
\* closes without a final newline.
C13_EveryFrameYieldsToken ==
    Batch =>
        \A j \in Indices :
            streams[j].state \in {"open", "ended"} =>
                /\ IsPrefix(DeltasOf(FramesDelivered(j)), TokenChunks(j))
                /\ (streams[j].state = "ended" \/ SentinelDelivered(j)) =>
                     Answers(j) \subseteq {Flatten(DeltasOf(FramesDelivered(j)))}

\* The answer strings that describe the failure of the call of question j.
FailureAnswers(j) ==
    CASE streams[j].state = "netfail" -> {<<"Error: ">> \o NetworkFailure}
      [] streams[j].state = "badstatus" ->
            {<<"Error: ">> \o ApiError(st) : st \in BadStatuses}
                \cup {<<"Error: ">> \o BodyReadFailure}
      [] streams[j].state = "errored" -> {<<"Error: ">> \o StreamFailure}
      [] OTHER -> {}

\* C14: at most one answer_done(j) is ever written, and once the handler is
\* through question j there is exactly one.  Its error flag is true exactly
\* when the call failed (network failure, non-success status, stream error
\* before sentinel and close) and its answer then describes the failure;
\* otherwise (sentinel or normal close, also when an error or the close
\* follows the sentinel) the answer is the text accumulated from the frames
\* before the sentinel or the close.
C14_ErrorFlagExact ==
    Batch =>
        \A j \in Indices :
            /\ Cardinality(Positions("answer_done", j)) <= 1
            /\ (Over(j) /\ j < Len(validQuestions)) =>
                 /\ Cardinality(Positions("answer_done", j)) = 1
                 /\ \A d \in Positions("answer_done", j) :
                      /\ Events[d].error = UpstreamFailed(j)
                      /\ Events[d].error => Events[d].answer \in FailureAnswers(j)
                      /\ (~Events[d].error /\ streams[j].state \in {"open", "ended"}) =>
                           Events[d].answer =
                             Flatten(DeltasOf(BeforeSentinel(CompleteLines(Delivered(j)))))

\* Witness of C14: the stream of question 0 delivered the sentinel and then
\* raised an error; its answer_done has error=false and the text before the
\* sentinel.
C14_Witness ==
    /\ Batch /\ Over(0)
    /\ streams[0].state = "errored" /\ SentinelDelivered(0)
    /\ \E d \in Positions("answer_done", 0) :
         ~Events[d].error /\ Events[d].answer = <<"H", "e", "l">>

\* The handler awaits the stream of question i.
Waiting == pc = "stream"

\* The batch is through: complete is the last event and the channel is closed.
Completed ==
    /\ pc = "done" /\ res.finished
    /\ TypeCount("complete") = 1
    /\ Events[Len(Events)].type = "complete"

\* What is left of the upstream call of question j: an open body has its
\* undelivered atoms and its close, a call not yet settled has more than
\* any body.
Left(j) ==
    CASE streams[j].state = "open" -> Len(streams[j].rest) + 1
      [] streams[j].state = "none" -> Len(StreamUnterminated) + Len(StreamHello)
      [] OTHER -> 0

RECURSIVE SumLeft(_)
SumLeft(js) ==
    IF js = {} THEN 0
    ELSE LET j == CHOOSE x \in js : TRUE IN Left(j) + SumLeft(js \ {j})

\* A bound on the steps the batch can still take.
Remaining ==
    SumLeft(Indices) + (IF pc = "received" THEN 2 ELSE IF pc = "errtext" THEN 1 ELSE 0)

\* C15: every batch whose event channel was opened eventually writes the
\* complete event and closes the channel, given that every upstream call
\* eventually fails, delivers the sentinel, closes its stream or raises a
\* stream error.  In the form a finite run refutes: the handler never
\* waits for a stream that has closed, failed or resolved its promise; as
\* long as an opened batch is not complete, the upstream call in flight
\* can settle (fail, close or raise an error), which resumes the handler;
\* and every step uses up what is left of the batch, so that no run goes on
\* forever.
C15_BatchCompletes ==
    /\ [](Batch /\ Waiting =>
            streams[i].state = "open" /\ streams[i].settled = "pending")
    /\ []((Batch /\ res.sse /\ ~Completed) =>
            ENABLED (FetchReject \/ ErrText
                        \/ \E j \in Indices : StreamEnd(j) \/ StreamError(j)))
    /\ [][Remaining' < Remaining]_vars

\* Witness of C15: a batch of one question whose stream closed without a
\* sentinel is complete.
C15_Witness ==
    /\ Batch /\ Completed
    /\ Len(validQuestions) = 1
    /\ streams[0].state = "ended" /\ ~SentinelDelivered(0)

RECURSIVE NonBlankOf(_)
\* The entries of a list that are not blank, in their order.
NonBlankOf(qs) ==
    IF qs = <<>> THEN <<>>
    ELSE IF IsBlank(Head(qs)) THEN NonBlankOf(Tail(qs))
    ELSE <<Head(qs)>> \o NonBlankOf(Tail(qs))

\* The events of a type, in the order written.
EventsOf(t) == SelectSeq(Events, LAMBDA e : e.type = t)

\* C16: of a list that mixes blank and non-blank entries the batch
\* processes the non-blank entries and only them, in their order: the k-th
\* progress event and the k-th upstream request are those of the k-th
\* non-blank entry, with index k-1 and current = index + 1; total and
\* totalQuestions are the number of non-blank entries; every token and
\* answer_done event carries the index of a non-blank entry (and
\* answer_done its question); and a finished batch has one progress event
\* and one upstream request per non-blank entry.
C16_FilteredOrder ==
    Batch =>
        LET nb == NonBlankOf(body.questions)
            N == Len(nb)
            progress == EventsOf("progress")
        IN  /\ Len(progress) <= N
            /\ \A k \in 1..Len(progress) :
                 /\ progress[k].index = k - 1
                 /\ progress[k].current = progress[k].index + 1
                 /\ progress[k].total = N
                 /\ progress[k].question = Trim(nb[k])
            /\ Len(calls) = Len(progress)
            /\ \A c \in 1..Len(calls) :
                 calls[c].index = c - 1 /\ calls[c].question = Trim(nb[c])
            /\ \A p \in 1..Len(Events) :
                 /\ Events[p].type \in {"token", "answer_done"} =>
                      Events[p].index \in 0..(Len(progress) - 1)
                 /\ Events[p].type = "answer_done" =>
                      Events[p].question = Trim(nb[Events[p].index + 1])
                 /\ Events[p].type = "complete" => Events[p].totalQuestions = N
            /\ pc = "done" => (Len(progress) = N /\ TypeCount("answer_done") = N)

\* Witness of C16: the finished batch of the list ['b', ' ', ' a\t'], with a
\* token of the second question.
C16_Witness ==
    /\ Batch /\ pc = "done"
    /\ body.questions = <<<<"b">>, <<" ">>, <<" ", "a", "\t">>>>
    /\ Positions("token", 1) # {}

\* The deltas a parse of the whole body of question j, line by line up to
\* the first terminal frame, finds.
WholeParse(j) == DeltasOf(BeforeSentinel(Split(streams[j].full)))

\* C17: however the body of question j was split into chunks, once it has
\* been delivered and has closed, the token events written for j are those
\* of a parse of the whole body line by line up to the first '[DONE]' line,
\* and so is the answer of answer_done(j).
C17_ChunkingInvariant ==
    Batch =>
        \A j \in Indices :
            streams[j].state = "ended" =>
                /\ TokenChunks(j) = WholeParse(j)
                /\ Answers(j) = {Flatten(WholeParse(j))}

\* What the upstream has delivered of the body of question 0 of a request.
OwnDelivered(b) ==
    SubSeq(b.streams[0].full, 1, Len(b.streams[0].full) - Len(b.streams[0].rest))

\* The deltas of the frames of its own body before the terminal frame.
OwnDeltas(b) == DeltasOf(BeforeSentinel(CompleteLines(OwnDelivered(b))))

\* The event stream of a batch of one question q that runs alone, as far
\* as the upstream of that batch has got: progress, the tokens of the own
\* body, and, when the call has settled, answer_done and complete.
AloneEvents(b, q) ==
    LET s == b.streams[0]
        tokens == [k \in 1..Len(OwnDeltas(b)) |-> TokenEvent(0, OwnDeltas(b)[k])]
        failed == s.state = "netfail"
    IN  IF b.pc \in {"received", "rejected"} THEN <<>>
        ELSE <<ProgressEvent(0, q, 1)>> \o tokens \o
             (IF b.pc # "done" THEN <<>>
              ELSE <<AnswerDoneEvent(0, q,
                        IF failed THEN <<"Error: ">> \o NetworkFailure
                        ELSE Flatten(OwnDeltas(b)), failed),
                     CompleteEvent(1)>>)

\* C18: of two batch requests whose upstream events interleave in any
\* order, each has on its channel the event stream it has when it runs
\* alone (a function of its own question and its own upstream body), its
\* line buffer is the unterminated rest of its own body, its answer is
\* made of the deltas of its own body, and a step of one request leaves
\* the state of the other as it is.
C18_BatchesIndependent ==
    /\ [](\A r \in Requests :
            LET b == batches[r]
                s == b.streams[0]
                q == Trim(QuestionsOf(r)[1])
            IN  /\ s.state # "errored" => b.res.events = AloneEvents(b, q)
                /\ s.state = "errored" =>
                     /\ b.res.events[1] = ProgressEvent(0, q, 1)
                     /\ b.res.events[Len(b.res.events)] = CompleteEvent(1)
                     /\ \A p \in 2..(Len(b.res.events) - 1) :
                          /\ b.res.events[p].index = 0
                          /\ b.res.events[p].type = "answer_done" =>
                               b.res.events[p].question = q
                /\ s.state \in {"open", "ended"} =>
                     LET ls == Split(OwnDelivered(b)) IN s.buffer = ls[Len(ls)]
                /\ s.settled = "pending" => s.fullAnswer = Flatten(OwnDeltas(b)))
    /\ [][\E r \in Requests :
            \A o \in Requests \ {r} : batches'[o] = batches[o]]_vars

\* Witness of C18: both requests have written a token and both hold the
\* beginning of a frame in their line buffers.
C18_Witness ==
    /\ batches # <<>>
    /\ \A r \in Requests :
         /\ batches[r].streams[0].state = "open"
         /\ batches[r].streams[0].buffer # <<>>
         /\ \E p \in 1..Len(batches[r].res.events) :
              batches[r].res.events[p].type = "token"

====
